---- MODULE Spec2Model ----
(***************************************************************************)
(* GObject interface registration (glib/src/subclass/interface.rs) and the *)
(* comparison traits of UnixMountPoint (gio/src/auto/unix_mount_point.rs). *)
(*                                                                         *)
(* Threads call get_type, register_interface and from_instance; the        *)
(* GObject runtime calls back the interface_init trampoline.  Every call   *)
(* is a frame on the calling thread's stack and every statement with an    *)
(* effect another thread can see is one step.                              *)
(***************************************************************************)
EXTENDS Integers, Sequences, FiniteSets, TLC

\* ------------------------------------------------------------- bounds
NumThreads == 2
MaxCalls == 3
MaxOther == 2
MaxMounts == 3

\* ---------------------------------------------------------- constants
INVALID == 0
MaxArity == 19
NULL == 0
AGAIN == NULL + 1
I32Max == 2147483647
I32Min == -I32Max - 1

Threads == 1..NumThreads

\* The Rust object types usable as prerequisites and as classes of objects.
ObjectTypes == {"Object", "Widget"}

\* T::static_type().to_glib() of an object type.
static_type(T) == IF T = "Object" THEN 1 ELSE 2

\* g_type_parent of the object types: Widget derives from Object.
g_type_parent(g) == IF g = 2 THEN 1 ELSE INVALID

\* The GTypes of the object types; registered interfaces get the next ones.
ObjectGTypes == {static_type(T) : T \in ObjectTypes}

\* ---------------------------------------------------------- descriptors
\* Two implementations of ObjectInterface that share NAME.  The first has
\* prerequisites, properties and signals and leaves type_init empty; the
\* second has none and overrides type_init.
Descriptors == {1, 2}

NAME(d) == "Drawable"

Prerequisites(d) == IF d = 1 THEN <<"Widget", "Object">> ELSE << >>

properties(d) == IF d = 1 THEN <<"color", "width">> ELSE << >>

signals(d) == IF d = 1 THEN <<"redraw", "resize">> ELSE << >>

\* What the descriptor's type_init hook does: the default body is empty; the
\* hook of the second descriptor uses the new type at once and so makes the
\* runtime initialise the interface on the registering thread.
TypeInitHook(d) == IF d = 1 THEN "empty" ELSE "init_iface"

\* ------------------------------------------------- PrerequisiteList
\* prerequisite_list_trait!(__impl cur; rest): the arities it implements.
RECURSIVE prerequisite_list_trait_impls(_, _)
prerequisite_list_trait_impls(cur, rest) ==
  IF rest = 0 THEN << >>
  ELSE IF rest = 1 THEN <<cur, cur + 1>>
  ELSE <<cur>> \o prerequisite_list_trait_impls(cur + 1, rest - 1)

\* prerequisite_list_trait!(A, B, C, ..., S): entry rule, two names then the rest.
prerequisite_list_trait(n) ==
  IF n < 3 THEN << >> ELSE prerequisite_list_trait_impls(2, n - 2)

\* An expansion that puts each type in front of the ones before it.
RECURSIVE prerequisite_list_trait_inner_Front(_, _)
prerequisite_list_trait_inner_Front(types, names) ==
  IF Len(names) = 1 THEN <<static_type(Head(names))>> \o types
  ELSE prerequisite_list_trait_inner_Front(<<static_type(Head(names))>> \o types, Tail(names))

\* prerequisite_list_trait_inner!(types, head rest...)
RECURSIVE prerequisite_list_trait_inner(_, _)
prerequisite_list_trait_inner(types, names) ==
  IF Len(names) = 1 THEN Append(types, static_type(Head(names)))
  ELSE prerequisite_list_trait_inner(Append(types, static_type(Head(names))), Tail(names))

HasImpl(n) ==
  \/ n \in {0, 1}
  \/ \E k \in 1..Len(prerequisite_list_trait(MaxArity)) : prerequisite_list_trait(MaxArity)[k] = n

\* <tuple as PrerequisiteList>::types()
types(tuple) ==
  IF Len(tuple) = 0 THEN << >>
  ELSE IF Len(tuple) = 1 THEN <<static_type(tuple[1])>>
  ELSE prerequisite_list_trait_inner(<< >>, tuple)

\* ------------------------------------------------------------- state
VARIABLES
  once,        \* ONCE of each descriptor's get_type: incomplete/running/complete/poisoned
  TYPE,        \* static mut TYPE of each descriptor's get_type
  registry,    \* the runtime's interface types, in registration order, each with the
               \*   log of what was done for it
  implements,  \* <<object GType, interface GType>>: g_type_add_interface_static done
  stack,       \* the call stack of each thread, innermost frame last
  panics,      \* history: the panics so far
  calls,       \* top-level calls started so far
  aborted,     \* the process has aborted
  returned,    \* history: the values get_type has returned, per descriptor
  gateRuns,    \* history: runs of the call_once closure, per descriptor
  writes,      \* history: assignments to TYPE, per descriptor
  typeInits,   \* history: the calls of type_init, per descriptor: with which type, and
               \*          whether from the closure of get_type
  typeInitDone,\* history: types for which type_init has returned, per descriptor
  hookRuns,    \* history: the runs of the interface_init hook, per descriptor: whether
               \*          inside a get_type call
  refs,        \* history: the references from_instance has returned, per descriptor and class
  tuple,       \* a PrerequisiteList: a tuple of object types
  typesOut,    \* what types() returned for a tuple: [of |-> the tuple, out |-> the Vec]
  mountCmp     \* two UnixMountPoints, what the native compare gives for them and
               \*   what eq, partial_cmp and cmp have returned for them

vars == <<once, TYPE, registry, implements, stack, panics, calls, aborted,
          returned, gateRuns, writes, typeInits, typeInitDone, hookRuns, refs, tuple, typesOut, mountCmp>>

regVars == <<once, TYPE, registry, implements, stack, panics, calls, aborted,
             returned, gateRuns, writes, typeInits, typeInitDone, hookRuns, refs>>


\* GType of the k-th registered interface.
GTypeOf(k) == Cardinality(ObjectGTypes) + k

IndexOf(g) == g - Cardinality(ObjectGTypes)

IsRegistered(g) == IndexOf(g) \in 1..Len(registry)

\* g_type_from_name
g_type_from_name(name) ==
  IF \E k \in 1..Len(registry) : registry[k].name = name
  THEN GTypeOf(CHOOSE k \in 1..Len(registry) : registry[k].name = name)
  ELSE INVALID

\* Type::is_valid
is_valid(g) == g # INVALID

Frame(fn, d, pc, arg) == [fn |-> fn, d |-> d, pc |-> pc, ty |-> INVALID, i |-> 1, arg |-> arg]

Top(t) == stack[t][Len(stack[t])]

InCall(t) == stack[t] # << >>

At(t, fn, pc) == InCall(t) /\ Top(t).fn = fn /\ Top(t).pc = pc

Running(t) == ~aborted /\ InCall(t)

\* The top frame of t replaced by f.
SetTop(t, f) == [stack EXCEPT ![t] = [@ EXCEPT ![Len(@)] = f]]

Push(t, f) == [stack EXCEPT ![t] = Append(@, f)]

\* The caller's frame once the callee has returned v.
Resume(f, v) ==
  CASE f.fn = "get_type" -> [f EXCEPT !.pc = "store", !.ty = v]
    [] f.fn = "register_interface" -> [f EXCEPT !.pc = "type_init_ret"]
    [] f.fn = "interface_init" -> [f EXCEPT !.pc = "signals", !.ty = v, !.i = 1]
    [] f.fn = "from_instance" /\ f.pc = "get_type1" -> [f EXCEPT !.pc = "is_a", !.ty = v]
    [] OTHER -> [f EXCEPT !.pc = "peek", !.ty = v]

\* The innermost frame of t returns v.
ReturnTo(t, v) ==
  LET n == Len(stack[t]) IN
  IF n = 1
  THEN /\ stack' = [stack EXCEPT ![t] = << >>]
       /\ UNCHANGED panics
  ELSE /\ stack' = [stack EXCEPT ![t] =
                      [k \in 1..(n - 1) |-> IF k = n - 1 THEN Resume(@[k], v) ELSE @[k]]]
       /\ UNCHANGED panics

\* The call_once closures a panic of t unwinds through.
ClosuresOf(t) ==
  {stack[t][k].d : k \in {j \in 1..Len(stack[t]) :
                            stack[t][j].fn = "get_type" /\ stack[t][j].pc = "closure"}}

InTrampoline(t) == \E k \in 1..Len(stack[t]) : stack[t][k].fn = "interface_init"


\* A panic at the assertion `at`, in the top-level call fn of descriptor d.
PanicOf(t, at) ==
  [at |-> at, fn |-> stack[t][1].fn, d |-> stack[t][1].d, arg |-> stack[t][1].arg]

\* t panics at `at`.  The panic unwinds the whole stack of the thread and
\* poisons every ONCE whose closure it leaves.  Unwinding out of the
\* extern "C" trampoline is undefined: the build either lets it pass or aborts
\* the process.
Panic(t, at) ==
  \/ /\ stack' = [stack EXCEPT ![t] = << >>]
     /\ once' = [d \in Descriptors |-> IF d \in ClosuresOf(t) THEN "poisoned" ELSE once[d]]
     /\ panics' = panics \cup {PanicOf(t, at)}
     /\ UNCHANGED aborted
  \/ /\ InTrampoline(t)
     /\ aborted' = TRUE
     /\ stack' = [u \in Threads |-> << >>]
     /\ panics' = panics \cup {PanicOf(t, at)}
     /\ UNCHANGED once

\* types() not called on the tuple at hand yet.
NotCalled == [called |-> FALSE, of |-> << >>, out |-> << >>]

\* No UnixMountPoint has been compared yet.  eq, partial_cmp and cmp hold what
\* the call of that name has returned: << >> before the call, <<value>> after.
NoMounts == [a |-> NULL, b |-> NULL, native |-> 0,
             eq |-> << >>, partial_cmp |-> << >>, cmp |-> << >>]

Init ==
  /\ once = [d \in Descriptors |-> "incomplete"]
  /\ TYPE = [d \in Descriptors |-> INVALID]
  /\ registry = << >>
  /\ implements = {}
  /\ stack = [t \in Threads |-> << >>]
  /\ panics = {}
  /\ calls = 0
  /\ aborted = FALSE
  /\ returned = [d \in Descriptors |-> {}]
  /\ gateRuns = [d \in Descriptors |-> 0]
  /\ writes = [d \in Descriptors |-> 0]
  /\ typeInits = [d \in Descriptors |-> << >>]
  /\ typeInitDone = [d \in Descriptors |-> {}]
  /\ hookRuns = [d \in Descriptors |-> << >>]
  /\ refs = [d \in Descriptors |-> [g \in ObjectGTypes |-> {}]]
  /\ tuple = << >>
  /\ typesOut = NotCalled
  /\ mountCmp = NoMounts

\* ----------------------------------------------------- top-level calls
\* Idle threads are alike: the next call goes to the first idle one.
CanCall(t) ==
  /\ ~aborted /\ ~InCall(t) /\ calls < MaxCalls
  /\ \A u \in Threads : u < t => InCall(u)

\* A thread calls T::get_type().
CallGetType(t, d) ==
  /\ CanCall(t)
  /\ stack' = Push(t, Frame("get_type", d, "call_once", NULL))
  /\ calls' = calls + 1
  /\ UNCHANGED <<once, TYPE, registry, implements, panics, aborted, returned, gateRuns, writes,
                 typeInits, typeInitDone, hookRuns, refs, tuple, typesOut, mountCmp>>

\* register_interface::<T>() has returned a valid type before.
Succeeded(d) == \E g \in typeInitDone[d] : is_valid(g)

\* A thread calls register_interface::<T>() itself.  The frame notes whether
\* an earlier call for T has succeeded (AGAIN) or not (NULL).
CallRegisterInterface(t, d) ==
  /\ CanCall(t)
  /\ stack' = Push(t, Frame("register_interface", d, "check_name",
                            IF Succeeded(d) THEN AGAIN ELSE NULL))
  /\ calls' = calls + 1
  /\ UNCHANGED <<once, TYPE, registry, implements, panics, aborted, returned, gateRuns, writes,
                 typeInits, typeInitDone, hookRuns, refs, tuple, typesOut, mountCmp>>

\* ----------------------------------------------------------- get_type
\* A gate that also admits a caller while the closure runs.
MayRunClosure_NoGate(d) == once[d] \in {"incomplete", "running"}

\* call_once lets exactly the first caller run the closure.
MayRunClosure(d) == once[d] = "incomplete"

\* ONCE.call_once(closure), ONCE not yet run: this thread runs the closure,
\* which calls register_interface::<Self>().
CallOnceRun(t) ==
  /\ Running(t) /\ At(t, "get_type", "call_once")
  /\ LET d == Top(t).d IN
     /\ MayRunClosure(d)
     /\ once' = [once EXCEPT ![d] = "running"]
     /\ gateRuns' = [gateRuns EXCEPT ![d] = @ + 1]
     /\ stack' = [stack EXCEPT ![t] =
                    [@ EXCEPT ![Len(@)].pc = "closure"]
                      \o <<Frame("register_interface", d, "check_name", NULL)>>]
  /\ UNCHANGED <<TYPE, registry, implements, panics, calls, aborted, returned,
                 writes, typeInits, typeInitDone, hookRuns, refs, tuple, typesOut, mountCmp>>

\* A call_once that also returns while another caller's closure is running.
CallOnceDone_Early(t) ==
  /\ Running(t) /\ At(t, "get_type", "call_once")
  /\ once[Top(t).d] \in {"running", "complete"}
  /\ stack' = SetTop(t, [Top(t) EXCEPT !.pc = "assert"])
  /\ UNCHANGED <<once, TYPE, registry, implements, panics, calls, aborted, returned,
                 gateRuns, writes, typeInits, typeInitDone, hookRuns, refs, tuple, typesOut, mountCmp>>

\* ONCE.call_once(closure), ONCE complete: returns at once.  While another
\* thread runs the closure the caller blocks: no step.
CallOnceDone(t) ==
  /\ Running(t) /\ At(t, "get_type", "call_once")
  /\ once[Top(t).d] = "complete"
  /\ stack' = SetTop(t, [Top(t) EXCEPT !.pc = "assert"])
  /\ UNCHANGED <<once, TYPE, registry, implements, panics, calls, aborted, returned,
                 gateRuns, writes, typeInits, typeInitDone, hookRuns, refs, tuple, typesOut, mountCmp>>

\* ONCE.call_once(closure), ONCE poisoned by a panic of its closure: panics.
CallOncePoisoned(t) ==
  /\ Running(t) /\ At(t, "get_type", "call_once")
  /\ once[Top(t).d] = "poisoned"
  /\ Panic(t, "once_poisoned")
  /\ UNCHANGED <<TYPE, registry, implements, calls, returned,
                 gateRuns, writes, typeInits, typeInitDone, hookRuns, refs, tuple, typesOut, mountCmp>>

\* This thread is itself inside the closure of ONCE[d].
OwnClosure(t, d) ==
  \E k \in 1..Len(stack[t]) :
     stack[t][k].fn = "get_type" /\ stack[t][k].d = d /\ stack[t][k].pc = "closure"

\* ONCE.call_once(closure) from inside the closure of the same ONCE: std leaves
\* the outcome open between a panic and a deadlock.
CallOnceReentrant(t) ==
  /\ Running(t) /\ At(t, "get_type", "call_once")
  /\ once[Top(t).d] = "running"
  /\ OwnClosure(t, Top(t).d)
  /\ \/ /\ Panic(t, "once_reentrant")
     \/ /\ stack' = SetTop(t, [Top(t) EXCEPT !.pc = "parked"])
        /\ UNCHANGED <<once, panics, aborted>>
  /\ UNCHANGED <<TYPE, registry, implements, calls, returned,
                 gateRuns, writes, typeInits, typeInitDone, hookRuns, refs, tuple, typesOut, mountCmp>>

\* A closure that drops the result of register_interface.
StoredType_Lost(f) == INVALID

\* The value the closure assigns to TYPE: the result of register_interface.
StoredType(f) == f.ty

\* TYPE = type_ inside the closure.
StoreType(t) ==
  /\ Running(t) /\ At(t, "get_type", "store")
  /\ TYPE' = [TYPE EXCEPT ![Top(t).d] = StoredType(Top(t))]
  /\ writes' = [writes EXCEPT ![Top(t).d] = @ + 1]
  /\ stack' = SetTop(t, [Top(t) EXCEPT !.pc = "closure_end"])
  /\ UNCHANGED <<once, registry, implements, panics, calls, aborted, returned,
                 gateRuns, typeInits, typeInitDone, hookRuns, refs, tuple, typesOut, mountCmp>>

\* The closure returns: ONCE is complete and the waiting callers go on.
CallOnceComplete(t) ==
  /\ Running(t) /\ At(t, "get_type", "closure_end")
  /\ once' = [once EXCEPT ![Top(t).d] = "complete"]
  /\ stack' = SetTop(t, [Top(t) EXCEPT !.pc = "assert"])
  /\ UNCHANGED <<TYPE, registry, implements, panics, calls, aborted, returned,
                 gateRuns, writes, typeInits, typeInitDone, hookRuns, refs, tuple, typesOut, mountCmp>>

\* get_type without its assertion.
TypeIsValid_Unchecked(d) == TRUE

\* assert!(TYPE.is_valid())
TypeIsValid(d) == is_valid(TYPE[d])

\* assert!(TYPE.is_valid()); TYPE
GetTypeReturn(t) ==
  /\ Running(t) /\ At(t, "get_type", "assert")
  /\ LET d == Top(t).d IN
     IF TypeIsValid(d)
     THEN /\ ReturnTo(t, TYPE[d])
          /\ returned' = [returned EXCEPT ![d] = @ \cup {TYPE[d]}]
          /\ UNCHANGED <<once, aborted>>
     ELSE /\ Panic(t, "type_assert")
          /\ UNCHANGED returned
  /\ UNCHANGED <<TYPE, registry, implements, calls,
                 gateRuns, writes, typeInits, typeInitDone, hookRuns, refs, tuple, typesOut, mountCmp>>

\* ------------------------------------------------- register_interface
\* register_interface without its assertion.
NameIsFree_Unchecked(d) == TRUE

\* assert_eq!(g_type_from_name(type_name), G_TYPE_INVALID)
NameIsFree(d) == g_type_from_name(NAME(d)) = INVALID

CheckName(t) ==
  /\ Running(t) /\ At(t, "register_interface", "check_name")
  /\ IF NameIsFree(Top(t).d)
     THEN /\ stack' = SetTop(t, [Top(t) EXCEPT !.pc = "register"])
          /\ UNCHANGED <<once, panics, aborted>>
     ELSE Panic(t, "name_check")
  /\ UNCHANGED <<TYPE, registry, implements, calls, returned,
                 gateRuns, writes, typeInits, typeInitDone, hookRuns, refs, tuple, typesOut, mountCmp>>

\* g_type_register_static_simple(INTERFACE, name, size, Some(interface_init::<T>), ..):
\* the runtime refuses a name it already holds and returns 0.
RegisterStatic(t) ==
  /\ Running(t) /\ At(t, "register_interface", "register")
  /\ LET d == Top(t).d IN
     IF g_type_from_name(NAME(d)) = INVALID
     THEN /\ registry' = Append(registry, [name |-> NAME(d), d |-> d, prereqs |-> << >>,
                                           state |-> "uninit", log |-> << >>])
          /\ stack' = SetTop(t, [Top(t) EXCEPT !.pc = "prerequisites", !.i = 1,
                                               !.ty = GTypeOf(Len(registry) + 1)])
     ELSE /\ stack' = SetTop(t, [Top(t) EXCEPT !.pc = "prerequisites", !.i = 1,
                                               !.ty = INVALID])
          /\ UNCHANGED registry
  /\ UNCHANGED <<once, TYPE, implements, panics, calls, aborted, returned,
                 gateRuns, writes, typeInits, typeInitDone, hookRuns, refs, tuple, typesOut, mountCmp>>

\* type_init called without waiting for the loop over the prerequisites.
PrerequisitesDone_Early(f) == TRUE

\* The loop over the prerequisites has ended.
PrerequisitesDone(f) == f.i > Len(types(Prerequisites(f.d)))

\* for prerequisite in T::Prerequisites::types():
\*     g_type_interface_add_prerequisite(type_, prerequisite)
\* (the runtime ignores the call on type 0).
AddPrerequisite(t) ==
  /\ Running(t) /\ At(t, "register_interface", "prerequisites")
  /\ LET f == Top(t)
         ps == types(Prerequisites(f.d))
     IN
     /\ f.i <= Len(ps)
     /\ registry' = IF IsRegistered(f.ty)
                    THEN [registry EXCEPT ![IndexOf(f.ty)].prereqs = Append(@, ps[f.i])]
                    ELSE registry
     /\ stack' = SetTop(t, [f EXCEPT !.i = @ + 1])
  /\ UNCHANGED <<once, TYPE, implements, panics, calls, aborted, returned,
                 gateRuns, writes, typeInits, typeInitDone, hookRuns, refs, tuple, typesOut, mountCmp>>

\* An entry of the log of an interface type, which lists in order what was
\* done for the type: a property installed, a signal registered on a Type,
\* the interface_init hook run, type_init returned.
Event(ev, what, on) == [ev |-> ev, what |-> what, on |-> on]

\* The state of the interface type g in the runtime; "none" for no type.
StateOf(g) == IF IsRegistered(g) THEN registry[IndexOf(g)].state ELSE "none"

\* T::type_init(&mut InitializingType::<T>(type_, PhantomData)) is entered.
TypeInitCall(t) ==
  /\ Running(t) /\ At(t, "register_interface", "prerequisites")
  /\ LET f == Top(t) IN
     /\ PrerequisitesDone(f)
     /\ typeInits' = [typeInits EXCEPT ![f.d] =
                         Append(@, [ty |-> f.ty, gated |-> Len(stack[t]) > 1])]
     /\ stack' = SetTop(t, [f EXCEPT !.pc = "type_init"])
  /\ UNCHANGED <<once, TYPE, registry, implements, panics, calls, aborted, returned,
                 gateRuns, writes, typeInitDone, hookRuns, refs, tuple, typesOut, mountCmp>>

\* The type_init hook uses the new type so that the runtime initialises the
\* interface now, on this thread (g_type_default_interface_ref, or the class
\* of a first implementor): the runtime calls the trampoline.
TypeInitUsesType(t) ==
  /\ Running(t) /\ At(t, "register_interface", "type_init")
  /\ LET f == Top(t) IN
     /\ TypeInitHook(f.d) = "init_iface"
     /\ StateOf(f.ty) = "uninit"
     /\ registry' = [registry EXCEPT ![IndexOf(f.ty)].state = "initialising"]
     /\ stack' = [stack EXCEPT ![t] =
                    [@ EXCEPT ![Len(@)].pc = "type_init_cb"]
                      \o <<Frame("interface_init", registry[IndexOf(f.ty)].d, "properties", f.ty)>>]
  /\ UNCHANGED <<once, TYPE, implements, panics, calls, aborted, returned,
                 gateRuns, writes, typeInits, typeInitDone, hookRuns, refs, tuple, typesOut, mountCmp>>

\* type_init returns (its body is empty, or the runtime had nothing left to do
\* for it), and register_interface returns type_.  While another thread
\* initialises the interface the runtime makes the hook wait for it: no step.
TypeInitReturn(t) ==
  /\ Running(t)
  /\ \/ At(t, "register_interface", "type_init_ret")
     \/ /\ At(t, "register_interface", "type_init")
        /\ (TypeInitHook(Top(t).d) = "empty" \/ StateOf(Top(t).ty) \in {"none", "initialised"})
  /\ typeInitDone' = [typeInitDone EXCEPT ![Top(t).d] = @ \cup {Top(t).ty}]
  /\ registry' = IF IsRegistered(Top(t).ty)
                 THEN [registry EXCEPT ![IndexOf(Top(t).ty)].log =
                         Append(@, Event("type_init", "", Top(t).ty))]
                 ELSE registry
  /\ ReturnTo(t, Top(t).ty)
  /\ UNCHANGED <<once, TYPE, implements, calls, aborted, returned,
                 gateRuns, writes, typeInits, hookRuns, refs, tuple, typesOut, mountCmp>>

\* ------------------------------------------- interface_init trampoline
\* The runtime initialises a registered interface type on a thread that uses
\* it for the first time, and calls interface_init::<T>(klass, _) for it once.
ForeignInitInterface(t, g) ==
  /\ CanCall(t)
  /\ StateOf(g) = "uninit"
  /\ registry' = [registry EXCEPT ![IndexOf(g)].state = "initialising"]
  /\ stack' = Push(t, Frame("interface_init", registry[IndexOf(g)].d, "properties", g))
  /\ calls' = calls + 1
  /\ UNCHANGED <<once, TYPE, implements, panics, aborted, returned, gateRuns, writes,
                 typeInits, typeInitDone, hookRuns, refs, tuple, typesOut, mountCmp>>

\* The loop over the properties run backwards.
NextProperty_Reversed(f) == properties(f.d)[Len(properties(f.d)) + 1 - f.i]

\* for pspec in pspecs: the property of this turn of the loop.
NextProperty(f) == properties(f.d)[f.i]

\* for pspec in properties(): g_object_interface_install_property(iface, pspec)
InstallProperty(t) ==
  /\ Running(t) /\ At(t, "interface_init", "properties")
  /\ LET f == Top(t) IN
     /\ f.i <= Len(properties(f.d))
     /\ registry' = [registry EXCEPT ![IndexOf(f.arg)].log =
                        Append(@, Event("property", NextProperty(f), f.arg))]
     /\ stack' = SetTop(t, [f EXCEPT !.i = @ + 1])
  /\ UNCHANGED <<once, TYPE, implements, panics, calls, aborted, returned,
                 gateRuns, writes, typeInits, typeInitDone, hookRuns, refs, tuple, typesOut, mountCmp>>

\* A trampoline that takes the type of klass instead of calling get_type.
TrampolineGetType_FromKlass(t) ==
  /\ Running(t) /\ At(t, "interface_init", "properties")
  /\ LET f == Top(t) IN
     /\ f.i > Len(properties(f.d))
     /\ stack' = SetTop(t, [f EXCEPT !.pc = "signals", !.ty = f.arg, !.i = 1])
  /\ UNCHANGED <<once, TYPE, registry, implements, panics, calls, aborted, returned,
                 gateRuns, writes, typeInits, typeInitDone, hookRuns, refs, tuple, typesOut, mountCmp>>

\* let type_ = T::get_type();
TrampolineGetType(t) ==
  /\ Running(t) /\ At(t, "interface_init", "properties")
  /\ LET f == Top(t) IN
     /\ f.i > Len(properties(f.d))
     /\ stack' = [stack EXCEPT ![t] =
                    [@ EXCEPT ![Len(@)].pc = "get_type"]
                      \o <<Frame("get_type", f.d, "call_once", NULL)>>]
  /\ UNCHANGED <<once, TYPE, registry, implements, panics, calls, aborted, returned,
                 gateRuns, writes, typeInits, typeInitDone, hookRuns, refs, tuple, typesOut, mountCmp>>

\* for signal in signals(): signal.register(type_)
RegisterSignal(t) ==
  /\ Running(t) /\ At(t, "interface_init", "signals")
  /\ LET f == Top(t) IN
     /\ f.i <= Len(signals(f.d))
     /\ registry' = [registry EXCEPT ![IndexOf(f.arg)].log =
                        Append(@, Event("signal", signals(f.d)[f.i], f.ty))]
     /\ stack' = SetTop(t, [f EXCEPT !.i = @ + 1])
  /\ UNCHANGED <<once, TYPE, implements, panics, calls, aborted, returned,
                 gateRuns, writes, typeInits, typeInitDone, hookRuns, refs, tuple, typesOut, mountCmp>>

\* iface.interface_init(): the descriptor's hook, and the trampoline returns
\* to the runtime, which marks the interface initialised.
InterfaceInitHook(t) ==
  /\ Running(t) /\ At(t, "interface_init", "signals")
  /\ LET f == Top(t) IN
     /\ f.i > Len(signals(f.d))
     /\ hookRuns' = [hookRuns EXCEPT ![f.d] = Append(@, Len(stack[t]) > 1)]
     /\ registry' = [registry EXCEPT ![IndexOf(f.arg)].state = "initialised",
                                     ![IndexOf(f.arg)].log =
                                        Append(@, Event("interface_init", "", f.arg))]
     /\ ReturnTo(t, INVALID)
  /\ UNCHANGED <<once, TYPE, implements, calls, aborted, returned,
                 gateRuns, writes, typeInits, typeInitDone, refs, tuple, typesOut, mountCmp>>

\* ------------------------------------------------------ from_instance
\* The runtime's g_type_is_a for an object type and an interface type: the
\* class or one of its ancestors has the interface added.
RECURSIVE g_type_is_a(_, _)
g_type_is_a(g, iface) ==
  \/ g = iface
  \/ <<g, iface>> \in implements
  \/ /\ g_type_parent(g) # INVALID
     /\ g_type_is_a(g_type_parent(g), iface)

\* g_type_interface_peek(klass, iface): the interface structure of the class,
\* at an address of its own, or null when the class does not conform.
g_type_interface_peek(klass, iface) ==
  IF klass # iface /\ g_type_is_a(klass, iface) THEN 100 * klass + iface ELSE NULL

\* User code adds a registered, initialised interface to an object class whose
\* prerequisites it meets (g_type_add_interface_static).
ForeignAddInterface(g, iface) ==
  /\ ~aborted
  /\ StateOf(iface) = "initialised"
  /\ <<g, iface>> \notin implements
  /\ \A k \in 1..Len(registry[IndexOf(iface)].prereqs) :
        g_type_is_a(g, registry[IndexOf(iface)].prereqs[k])
  /\ implements' = implements \cup {<<g, iface>>}
  /\ UNCHANGED <<once, TYPE, registry, stack, panics, calls, aborted, returned,
                 gateRuns, writes, typeInits, typeInitDone, hookRuns, refs, tuple, typesOut, mountCmp>>

\* A thread calls T::from_instance(obj) on an object of class g (the objects
\* at hand are widgets); the argument of assert!(..is_a(Self::get_type())) is
\* evaluated first.
CallFromInstance(t, d, g) ==
  /\ CanCall(t)
  /\ stack' = [stack EXCEPT ![t] = <<Frame("from_instance", d, "get_type1", g),
                                     Frame("get_type", d, "call_once", NULL)>>]
  /\ calls' = calls + 1
  /\ UNCHANGED <<once, TYPE, registry, implements, panics, aborted, returned, gateRuns, writes,
                 typeInits, typeInitDone, hookRuns, refs, tuple, typesOut, mountCmp>>

\* from_instance without its first assertion.
ObjIsA_Unchecked(g, ty) == TRUE

\* obj.as_ref().get_type().is_a(type_)
ObjIsA(g, ty) == g_type_is_a(g, ty)

\* assert!(obj.as_ref().get_type().is_a(Self::get_type())), then the second
\* Self::get_type() for g_type_interface_peek is called.
AssertIsA(t) ==
  /\ Running(t) /\ At(t, "from_instance", "is_a")
  /\ LET f == Top(t) IN
     IF ObjIsA(f.arg, f.ty)
     THEN /\ stack' = [stack EXCEPT ![t] =
                         [@ EXCEPT ![Len(@)].pc = "get_type2"]
                           \o <<Frame("get_type", f.d, "call_once", NULL)>>]
          /\ UNCHANGED <<once, panics, aborted>>
     ELSE Panic(t, "is_a_assert")
  /\ UNCHANGED <<TYPE, registry, implements, calls, returned,
                 gateRuns, writes, typeInits, typeInitDone, hookRuns, refs, tuple, typesOut, mountCmp>>

\* let interface = g_type_interface_peek(klass, type); assert!(!interface.is_null());
\* &*(interface as *const Self)
PeekReturn(t) ==
  /\ Running(t) /\ At(t, "from_instance", "peek")
  /\ LET f == Top(t)
         interface == g_type_interface_peek(f.arg, f.ty)
     IN
     IF interface # NULL
     THEN /\ ReturnTo(t, interface)
          /\ refs' = [refs EXCEPT ![f.d][f.arg] = @ \cup {interface}]
          /\ UNCHANGED <<once, aborted>>
     ELSE /\ Panic(t, "null_assert")
          /\ UNCHANGED refs
  /\ UNCHANGED <<TYPE, registry, implements, calls, returned,
                 gateRuns, writes, typeInits, typeInitDone, hookRuns, tuple, typesOut, mountCmp>>

\* ------------------------------------------- prerequisite lists alone
\* The tuples of the check: object types, at most MaxOther of them not Object.
Others(tup) == Cardinality({k \in 1..Len(tup) : tup[k] # "Object"})

\* A longer tuple type is written: one more object type at its end.  The type
\* is a PrerequisiteList only if the macro implements its arity.
GrowTuple(T) ==
  /\ Len(tuple) < MaxArity
  /\ HasImpl(Len(tuple) + 1)
  /\ Others(Append(tuple, T)) <= MaxOther
  /\ tuple' = Append(tuple, T)
  /\ typesOut' = NotCalled
  /\ UNCHANGED <<regVars, mountCmp>>

\* <tuple as PrerequisiteList>::types() is called.
CallTypes ==
  /\ ~typesOut.called
  /\ typesOut' = [called |-> TRUE, of |-> tuple, out |-> types(tuple)]
  /\ UNCHANGED <<regVars, tuple, mountCmp>>

NextPrereq ==
  \/ \E T \in ObjectTypes : GrowTuple(T)
  \/ CallTypes

SpecPrereq == Init /\ [][NextPrereq]_vars

\* ------------------------------------------------ UnixMountPoint order
\* The UnixMountPoints at hand.
MountPoints == 1..MaxMounts

\* Values of i32 that g_unix_mount_point_compare may return, the least and
\* the greatest among them.
I32 == {I32Min, -7, -1, 0, 1, 7, I32Max}

\* Two mount points are taken; the native compare gives `native` for them,
\* and 0 for a mount point and itself.
PickMounts(a, b, native) ==
  /\ a = b => native = 0
  /\ mountCmp' = [NoMounts EXCEPT !.a = a, !.b = b, !.native = native]
  /\ UNCHANGED <<regVars, tuple, typesOut>>

\* A UnixMountPoint is at hand.
HasMounts == mountCmp.a # NULL

\* fn compare(&self, mount2) -> i32: ffi::g_unix_mount_point_compare
compare(m) == m.native

\* i32::cmp(&self, &0)
i32_cmp_0(x) == IF x < 0 THEN "Less" ELSE IF x > 0 THEN "Greater" ELSE "Equal"

\* Option::Some(x)
Some(x) == [some |-> x]

\* An eq that takes the result of compare for a truth value.
eq_Truthy(m) == compare(m) # 0

\* PartialEq::eq: self.compare(other) == 0
eq(m) == compare(m) = 0

\* PartialOrd::partial_cmp: self.compare(other).partial_cmp(&0)
partial_cmp(m) == Some(i32_cmp_0(compare(m)))

\* Ord::cmp: self.compare(other).cmp(&0)
cmp(m) == i32_cmp_0(compare(m))

\* a == b
CallEq ==
  /\ HasMounts /\ mountCmp.eq = << >>
  /\ mountCmp' = [mountCmp EXCEPT !.eq = <<eq(mountCmp)>>]
  /\ UNCHANGED <<regVars, tuple, typesOut>>

\* a.partial_cmp(&b)
CallPartialCmp ==
  /\ HasMounts /\ mountCmp.partial_cmp = << >>
  /\ mountCmp' = [mountCmp EXCEPT !.partial_cmp = <<partial_cmp(mountCmp)>>]
  /\ UNCHANGED <<regVars, tuple, typesOut>>

\* a.cmp(&b)
CallCmp ==
  /\ HasMounts /\ mountCmp.cmp = << >>
  /\ mountCmp' = [mountCmp EXCEPT !.cmp = <<cmp(mountCmp)>>]
  /\ UNCHANGED <<regVars, tuple, typesOut>>

NextCompare ==
  \/ \E a, b \in MountPoints : \E native \in I32 : ~HasMounts /\ PickMounts(a, b, native)
  \/ CallEq
  \/ CallPartialCmp
  \/ CallCmp

SpecCompare == Init /\ [][NextCompare]_vars

\* ------------------------------------------------------- specification
Step(t) ==
  \/ CallOnceRun(t)
  \/ CallOnceDone(t)
  \/ CallOncePoisoned(t)
  \/ CallOnceReentrant(t)
  \/ StoreType(t)
  \/ CallOnceComplete(t)
  \/ GetTypeReturn(t)
  \/ CheckName(t)
  \/ RegisterStatic(t)
  \/ AddPrerequisite(t)
  \/ TypeInitCall(t)
  \/ TypeInitUsesType(t)
  \/ TypeInitReturn(t)
  \/ InstallProperty(t)
  \/ TrampolineGetType(t)
  \/ RegisterSignal(t)
  \/ InterfaceInitHook(t)
  \/ AssertIsA(t)
  \/ PeekReturn(t)

Next ==
  \/ \E t \in Threads, d \in Descriptors : CallGetType(t, d)
  \/ \E t \in Threads, d \in Descriptors : CallRegisterInterface(t, d)
  \/ \E t \in Threads, d \in Descriptors : CallFromInstance(t, d, static_type("Widget"))
  \/ \E t \in Threads, g \in 1..(Cardinality(ObjectGTypes) + Cardinality(Descriptors)) :
        ForeignInitInterface(t, g)
  \/ \E g \in ObjectGTypes, k \in 1..Len(registry) : ForeignAddInterface(g, GTypeOf(k))
  \/ \E t \in Threads : Step(t)

Spec == Init /\ [][Next]_vars

\* Every thread that can take a step of its call takes one in the end: the
\* scheduler starves no thread.
FairSpec == Spec /\ \A t \in Threads : WF_vars(Step(t))

\* ================================================================ claims
\* The frames of all threads.
Frames == UNION {{stack[t][k] : k \in 1..Len(stack[t])} : t \in Threads}

\* The gated calls of type_init of descriptor d.
GatedInits(d) == {k \in 1..Len(typeInits[d]) : typeInits[d][k].gated}

\* ---------------------------------------------------------------- C1
\* C1: when several threads make the first get_type call of one descriptor
\* concurrently, the closure of call_once (register_interface) runs exactly
\* once and all the calls that return return the same Type.
C1_OneRegistration ==
  \A d \in Descriptors :
     /\ gateRuns[d] <= 1
     /\ Cardinality(returned[d]) <= 1
     /\ returned[d] # {} => gateRuns[d] = 1 /\ returned[d] = {TYPE[d]}

\* One thread has run the closure to its end while another is blocked in
\* call_once of the same descriptor, both in a top-level get_type call.
C1_Witness ==
  \E t, u \in Threads :
     /\ t # u
     /\ Len(stack[t]) = 1 /\ Len(stack[u]) = 1
     /\ At(t, "get_type", "closure_end")
     /\ At(u, "get_type", "call_once")
     /\ Top(t).d = Top(u).d
     /\ gateRuns[Top(t).d] = 1

C3_OneTypePerName ==
  \A d, e \in Descriptors :
     d # e /\ NAME(d) = NAME(e) =>
        /\ returned[d] = {} \/ returned[e] = {}
        /\ Cardinality(returned[d] \cup returned[e]) <= 1
        /\ INVALID \notin returned[d]

\* The two descriptors raced: one got its Type, the call of the other passed
\* the name check and panicked at assert!(TYPE.is_valid()).
C3_Witness ==
  \E d, e \in Descriptors :
     /\ d # e /\ NAME(d) = NAME(e)
     /\ returned[d] # {}
     /\ \E p \in panics : p.fn = "get_type" /\ p.d = e /\ p.at = "type_assert"

\* ---------------------------------------------------------------- C4
\* What a whole run of the trampoline of descriptor d on type g does.
RECURSIVE EventsOf(_, _, _)
EventsOf(ev, names, g) ==
  IF names = << >> THEN << >>
  ELSE <<Event(ev, Head(names), g)>> \o EventsOf(ev, Tail(names), g)

TrampolineRun(d, g) ==
  EventsOf("property", properties(d), g) \o EventsOf("signal", signals(d), g)
    \o <<Event("interface_init", "", g)>>

\* What the trampoline did for the k-th interface type.
ByTrampoline(e) == e.ev # "type_init"

TrampolineLog(k) == SelectSeq(registry[k].log, ByTrampoline)

IsPrefix(a, b) == Len(a) <= Len(b) /\ a = SubSeq(b, 1, Len(a))

\* C4: a run of the trampoline installs every declared property once, in
\* declaration order, then registers every declared signal once, in declaration
\* order, on the Type of the interface, and calls the interface_init hook last.
C4_TrampolineOrder ==
  \A k \in 1..Len(registry) :
     /\ IsPrefix(TrampolineLog(k), TrampolineRun(registry[k].d, GTypeOf(k)))
     /\ registry[k].state = "initialised" =>
          TrampolineLog(k) = TrampolineRun(registry[k].d, GTypeOf(k))

\* A run of the trampoline of the descriptor with two properties and two
\* signals has ended.
C4_Witness ==
  \E k \in 1..Len(registry) :
     /\ registry[k].state = "initialised"
     /\ Len(TrampolineLog(k)) = 5

\* ---------------------------------------------------------------- C5
\* C5: from_instance panics at its first assertion whenever the class of the
\* object is not is-a the Type of the interface; what it returns is the one
\* non-null interface structure of that class.
C5_FromInstance ==
  /\ \A f \in Frames :
        f.fn = "from_instance" /\ f.pc \in {"get_type2", "peek"} =>
           g_type_is_a(f.arg, TYPE[f.d])
  /\ \A d \in Descriptors, g \in ObjectGTypes :
        /\ NULL \notin refs[d][g]
        /\ Cardinality(refs[d][g]) <= 1
        /\ refs[d][g] # {} =>
             /\ <<g, TYPE[d]>> \in implements \/ <<g_type_parent(g), TYPE[d]>> \in implements
             /\ refs[d][g] = {g_type_interface_peek(g, TYPE[d])}

\* from_instance has returned a reference for an implementor, and has
\* panicked for an object that is none.
C5_Witness ==
  /\ \E d \in Descriptors, g \in ObjectGTypes : refs[d][g] # {}
  /\ \E p \in panics : p.fn = "from_instance" /\ p.at = "is_a_assert"

\* ---------------------------------------------------------------- C6
\* C6: a call of register_interface made for a descriptor after an earlier
\* call for it has succeeded never gets past the name assertion: it panics
\* there, before it registers a type and before it calls type_init.
C6_SecondCallPanics ==
  /\ \A f \in Frames :
        f.fn = "register_interface" /\ f.arg = AGAIN => f.pc = "check_name"
  /\ \A p \in panics :
        p.fn = "register_interface" /\ p.arg = AGAIN => p.at = "name_check"

\* A second call of register_interface has panicked at the name assertion.
C6_Witness ==
  \E p \in panics : p.fn = "register_interface" /\ p.arg = AGAIN /\ p.at = "name_check"

\* ---------------------------------------------------------------- C7
\* C7: the interface_init hook of a descriptor runs only after its type_init
\* hook has returned for the type, also when the runtime calls the trampoline
\* on another thread while the type is still being registered.
C7_HookAfterTypeInit ==
  \A k \in 1..Len(registry) :
     \A i \in 1..Len(registry[k].log) :
        registry[k].log[i].ev = "interface_init" =>
           /\ GTypeOf(k) \in typeInitDone[registry[k].d]
           /\ \E j \in 1..(i - 1) : registry[k].log[j].ev = "type_init"

\* The trampoline started on a type before type_init had returned for it (a
\* property was installed first), and the interface_init hook has run.
C7_Witness ==
  \E k \in 1..Len(registry) :
     /\ registry[k].log # << >>
     /\ registry[k].log[1].ev = "property"
     /\ registry[k].log[Len(registry[k].log)].ev = "interface_init"

\* ---------------------------------------------------------------- C8
HasGetType(t) == \E k \in 1..Len(stack[t]) : stack[t][k].fn = "get_type"

\* C8: under fair scheduling every get_type call, the one made inside the
\* trampoline included, returns or panics in the end; none waits forever.
C8_GetTypeTerminates == \A t \in Threads : HasGetType(t) ~> ~HasGetType(t)

\* ---------------------------------------------------------------- C9
\* The arities 2..MaxArity, each implemented by the macro exactly once.
OneImplPerArity ==
  LET impls == prerequisite_list_trait(MaxArity) IN
  /\ Len(impls) = MaxArity - 1
  /\ \A n \in 2..MaxArity : Cardinality({k \in 1..Len(impls) : impls[k] = n}) = 1

\* C9: types() of an N-tuple of object types, N from 0 to 19, is the sequence
\* of length N of the Types of its members, in the order of the tuple; the
\* macro implements every arity from 2 to 19 exactly once.
C9_TypesInOrder ==
  /\ OneImplPerArity
  /\ Len(tuple) <= MaxArity
  /\ typesOut.called =>
       /\ Len(typesOut.out) = Len(typesOut.of)
       /\ \A i \in 1..Len(typesOut.of) : typesOut.out[i] = static_type(typesOut.of[i])
  /\ typesOut.called /\ typesOut.of = << >> => typesOut.out = << >>

\* types() was called on a 19-tuple whose members are not all the same.
C9_Witness ==
  /\ typesOut.called
  /\ Len(typesOut.of) = MaxArity
  /\ typesOut.of[1] # typesOut.of[2]
  /\ typesOut.of[MaxArity] = "Widget"

\* --------------------------------------------------------------- C10
\* The calls of type_init of descriptor d with the type g.
InitsWith(d, g) == {k \in 1..Len(typeInits[d]) : typeInits[d][k].ty = g}

\* C10: a register_interface call that gets a type from the runtime attaches
\* the prerequisites of the descriptor to it in list order, calls type_init once
\* and only when all of them are attached, then returns the type; get_type
\* caches a Type only once type_init has returned for it.
C10_RegistrationOrder ==
  /\ \A f \in Frames :
        f.fn = "register_interface" /\ is_valid(f.ty) =>
           LET ps == types(Prerequisites(f.d))
               attached == registry[IndexOf(f.ty)].prereqs
           IN
           /\ f.pc # "check_name"
           /\ f.pc = "prerequisites" => attached = SubSeq(ps, 1, f.i - 1)
           /\ f.pc \in {"type_init", "type_init_cb", "type_init_ret"} =>
                /\ attached = ps
                /\ Cardinality(InitsWith(f.d, f.ty)) = 1
                /\ f.ty \notin typeInitDone[f.d]
  /\ \A d \in Descriptors :
        /\ \A g \in typeInitDone[d] :
              is_valid(g) =>
                 /\ registry[IndexOf(g)].prereqs = types(Prerequisites(d))
                 /\ Cardinality(InitsWith(d, g)) = 1
        /\ is_valid(TYPE[d]) => TYPE[d] \in typeInitDone[d]
        /\ \A f \in Frames :
              f.fn = "get_type" /\ f.d = d /\ f.pc \in {"store", "closure_end"} /\ is_valid(f.ty) =>
                 f.ty \in typeInitDone[d]

\* get_type has cached the Type of the descriptor with two prerequisites.
C10_Witness ==
  \E d \in Descriptors :
     /\ is_valid(TYPE[d])
     /\ Len(types(Prerequisites(d))) = 2
     /\ registry[IndexOf(TYPE[d])].prereqs = <<static_type("Widget"), static_type("Object")>>

\* --------------------------------------------------------------- C11
\* The cell of d is INVALID until its one write, and no caller is past
\* call_once (about to read the cell) before the closure has completed.
CellState(d) ==
  /\ writes[d] <= 1
  /\ writes[d] = 0 => TYPE[d] = INVALID
  /\ once[d] = "incomplete" => writes[d] = 0
  /\ once[d] = "complete" => writes[d] = 1
  /\ \A f \in Frames : f.fn = "get_type" /\ f.d = d /\ f.pc = "assert" =>
        once[d] = "complete"
  /\ returned[d] \subseteq {TYPE[d]}

\* A step changes the cell of d only by the closure's assignment of the result
\* of register_interface, and only if it was not written before.
CellStep(d) ==
  /\ TYPE'[d] # TYPE[d] \/ writes'[d] # writes[d] =>
        /\ writes[d] = 0 /\ writes'[d] = 1
        /\ once[d] = "running"
        /\ \E t \in Threads :
              /\ At(t, "get_type", "store") /\ Top(t).d = d
              /\ TYPE'[d] = Top(t).ty
              /\ \/ Top(t).ty = INVALID
                 \/ Top(t).ty \in typeInitDone[d]
  /\ once[d] \in {"complete", "poisoned"} => once'[d] = once[d]

\* The runtime's registry only grows: the types registered stay as they are.
RegistryStep ==
  /\ Len(registry') >= Len(registry)
  /\ \A k \in 1..Len(registry) :
        registry'[k].name = registry[k].name /\ registry'[k].d = registry[k].d

\* C11: the cache cell of a descriptor starts INVALID, is written at most once,
\* inside the call_once closure and with the result of register_interface, and
\* never changes afterwards; no get_type call reads it before that write has
\* completed; no registered type is ever removed from the runtime's registry.
C11_CellWrittenOnce ==
  /\ \A d \in Descriptors : TYPE[d] = INVALID
  /\ [](\A d \in Descriptors : CellState(d))
  /\ [][(\A d \in Descriptors : CellStep(d)) /\ RegistryStep]_vars

\* The cell of a descriptor was written with a valid Type, the closure has
\* completed and a caller is past call_once, about to read the cell.
C11_Witness ==
  \E d \in Descriptors : \E t \in Threads :
     /\ writes[d] = 1 /\ is_valid(TYPE[d]) /\ once[d] = "complete"
     /\ At(t, "get_type", "assert") /\ Top(t).d = d
     /\ returned[d] # {}

\* --------------------------------------------------------------- C12
\* The first get_type call of d is over and has registered no type for d:
\* the name of d was registered by someone else.
NameTakenFor(d) ==
  /\ once[d] \in {"poisoned", "complete"}
  /\ \A k \in 1..Len(registry) : registry[k].d # d

\* C12: when the first get_type call of a descriptor fails because its name
\* is already registered, no type is registered for it, type_init is not
\* called, the cache cell stays INVALID, and every later get_type call for
\* the descriptor panics: none returns.
C12_FailureChangesNothing ==
  \A d \in Descriptors :
     NameTakenFor(d) =>
        /\ TYPE[d] = INVALID
        /\ GatedInits(d) = {}
        /\ returned[d] = {}
        /\ \A f \in Frames :
              f.fn = "get_type" /\ f.d = d => f.pc \in {"call_once", "assert"}

\* --------------------------------------------------------------- C13
\* C13: for two UnixMountPoints and every result of the native compare, eq
\* holds exactly when cmp is Equal, partial_cmp is Some of cmp, and cmp is
\* Less, Equal or Greater as compare is negative, zero or positive.
C13_OrderTraitsAgree ==
  LET m == mountCmp IN
  /\ m.eq # << >> /\ m.cmp # << >> => (m.eq[1] <=> m.cmp[1] = "Equal")
  /\ m.partial_cmp # << >> /\ m.cmp # << >> => m.partial_cmp[1] = Some(m.cmp[1])
  /\ m.cmp # << >> =>
        /\ m.native < 0 <=> m.cmp[1] = "Less"
        /\ m.native = 0 <=> m.cmp[1] = "Equal"
        /\ m.native > 0 <=> m.cmp[1] = "Greater"
  /\ m.partial_cmp # << >> /\ m.eq # << >> =>
        (m.eq[1] <=> m.partial_cmp[1] = Some("Equal"))

\* The three traits have been used on two different mount points for which the
\* native compare gives the least i32.
C13_Witness ==
  /\ mountCmp.a # mountCmp.b
  /\ mountCmp.native = I32Min
  /\ mountCmp.eq = <<FALSE>>
  /\ mountCmp.cmp = <<"Less">>
  /\ mountCmp.partial_cmp = <<Some("Less")>>

====
